---- MODULE Spec2Model ----
(***************************************************************************)
(* Model of the crawlers of salwks/ticker:                                 *)
(*   scripts/fetch_fundamentals.py and scripts/fetch_technical_data.py     *)
(* One run of a crawler script (or one direct call of crawl_all): the      *)
(* symbol list, the per-symbol fetch, the pacing sleep, the result         *)
(* mapping, the error counter and the snapshot file on disk.               *)
(* Both scripts share the control flow of crawl_all, save_results and      *)
(* __main__; line numbers in comments are those of fetch_fundamentals.py.  *)
(* Further specifications below: IndicatorSpec (calculate_sma,             *)
(* calculate_rsi, calculate_mdd), SaveSpec (save_results called on its     *)
(* own), NasdaqSpec (scripts/fetch_nasdaq.py) and TechSpec                 *)
(* (get_technical_data in the loop of the technical crawl).                *)
(***************************************************************************)
EXTENDS Integers, Sequences, FiniteSets, TLC

\* ---------------------------------------------------------------- bounds
MaxLen == 3          \* longest symbol list handed to crawl_all
NumSymbols == 2      \* distinct identifiers the universe may hold
MaxLimit == 4        \* largest limit a direct caller passes
NumTestSymbols == 2  \* entries of test_symbols kept in the model

\* ------------------------------------------------------ program constants
TestLimit == 10      \* limit=10 if test_mode (line 171)

AllTestSymbols ==
  <<"AAPL", "MSFT", "NVDA", "GOOGL", "AMZN", "META", "TSLA", "BRK.B", "V", "JPM">>

Min(a, b) == IF a < b THEN a ELSE b
Max(a, b) == IF a > b THEN a ELSE b

\* test_symbols of __main__ (lines 162-163), cut to NumTestSymbols entries
test_symbols == SubSeq(AllTestSymbols, 1, Min(NumTestSymbols, Len(AllTestSymbols)))

\* identifiers a universe file may hold
SymbolPool == {AllTestSymbols[j] : j \in 1..Min(NumSymbols, Len(AllTestSymbols))}

SymbolLists == UNION {[1..n -> SymbolPool] : n \in 0..MaxLen}

\* Python None for a fetched record; a record is the positive number of the
\* provider request that produced it
None == 0

\* the optional limit argument of crawl_all: None or an integer
NoLimit == [given |-> FALSE, n |-> 0]
SomeLimit(n) == [given |-> TRUE, n |-> n]
Limits == {NoLimit} \cup {SomeLimit(n) : n \in 0..MaxLimit}

\* what the provider does with one request:
\*   Ok          info with a 'symbol' key
\*   NotFound    info empty or lacking the 'symbol' key
\*   Exception   timeout, malformed payload or any other exception
\*   RateLimited the provider's throttling error (an exception as well)
Responses == {"Ok", "NotFound", "Exception", "RateLimited"}

EmptyMap == [s \in {} |-> None]

\* content of the snapshot file
\* quarter is the number n of the period tag Qn, 0 when the file has no tag
Absent == [st |-> "absent", count |-> 0, data |-> EmptyMap, quarter |-> 0]
Truncated == [st |-> "empty", count |-> 0, data |-> EmptyMap, quarter |-> 0]
Partial == [st |-> "partial", count |-> 0, data |-> EmptyMap, quarter |-> 0]
\* the snapshot a previous run left: one record, numbered -1
OldSnapshot ==
  [st |-> "complete", count |-> 1, data |-> (AllTestSymbols[1] :> (0 - 1)), quarter |-> 3]

VARIABLES
  entry,          \* "test": --test run, "full": plain run, "call": crawl_all called directly
  universeExists, \* the universe file is on disk
  universe,       \* the list in the universe file, or the list a direct caller passes
  callLimit,      \* the limit a direct caller passes
  file0,          \* snapshot file before the run
  file,           \* snapshot file on disk
  alive,          \* FALSE once the process was terminated from outside
  pc,             \* position of the process
  symbols,        \* __main__'s symbols
  limit,          \* crawl_all's limit argument
  crawl_symbols,  \* crawl_all's symbols after the limit was applied
  results,        \* crawl_all's results
  errors,         \* crawl_all's errors
  i,              \* loop index of enumerate(symbols, 1)
  reqlog,         \* requests answered so far: step, symbol, response
  events,         \* "F" for each request issued, "S" for each pacing sleep
  exitCode,       \* -1 while running
  month,          \* datetime.now().month when save_results runs
  saveCalls       \* calls of save_results that have returned

\* the state of the other scripts and functions, see below
VARIABLES
  prices, period, current_price, high_52w,   \* arguments of the indicator functions
  sma, rsi, mdd,                             \* their results
  t_pc, t_symbols, t_i, t_results, t_errors, t_log,   \* fetch_technical_data.py
  n_pc, lines, ln, tickers, directory        \* fetch_nasdaq.py

indicatorVars == <<prices, period, current_price, high_52w, sma, rsi, mdd>>
techVars == <<t_pc, t_symbols, t_i, t_results, t_errors, t_log>>
nasdaqVars == <<n_pc, lines, ln, tickers, directory>>

crawlVars == <<entry, universeExists, universe, callLimit, file0, file, alive, pc,
               symbols, limit, crawl_symbols, results, errors, i, reqlog, events,
               exitCode, month, saveCalls>>

vars == <<crawlVars, indicatorVars, techVars, nasdaqVars>>

inputs == <<entry, universeExists, universe, callLimit, file0, month, saveCalls,
            indicatorVars, techVars, nasdaqVars>>

\* a result that no call has produced yet
Unset == [kind |-> "unset", num |-> 0, den |-> 1]

IndicatorIdle ==
  /\ prices = <<>> /\ period = 0 /\ current_price = 0 /\ high_52w = 0
  /\ sma = Unset /\ rsi = Unset /\ mdd = Unset

TechIdle ==
  /\ t_pc = "idle" /\ t_symbols = <<>> /\ t_i = 0 /\ t_results = <<>>
  /\ t_errors = 0 /\ t_log = <<>>

NasdaqIdle ==
  /\ n_pc = "idle" /\ lines = <<>> /\ ln = 0 /\ tickers = <<>> /\ directory = <<>>

\* the month the crawl specification runs in, one of the scheduled months
RunMonth == 11

Init ==
  /\ entry \in {"test", "full", "call"}
  /\ universeExists \in BOOLEAN
  /\ universe \in SymbolLists
  /\ callLimit \in Limits
  /\ entry = "test" => universeExists /\ universe = <<>> /\ callLimit = NoLimit
  /\ entry = "full" => callLimit = NoLimit /\ (~universeExists => universe = <<>>)
  /\ entry = "call" => universeExists
  /\ file0 \in {Absent, OldSnapshot}
  /\ file = file0
  /\ alive = TRUE
  /\ pc = "start"
  /\ symbols = <<>>
  /\ limit = NoLimit
  /\ crawl_symbols = <<>>
  /\ results = EmptyMap
  /\ errors = 0
  /\ i = 0
  /\ reqlog = <<>>
  /\ events = <<>>
  /\ exitCode = 0 - 1
  /\ month = RunMonth
  /\ saveCalls = 0
  /\ IndicatorIdle /\ TechIdle /\ NasdaqIdle

\* ------------------------------------------------------------ __main__
\* lines 158-166, 171: test mode crawls test_symbols with limit 10
MainTest ==
  /\ alive /\ pc = "start" /\ entry = "test"
  /\ symbols' = test_symbols
  /\ limit' = SomeLimit(TestLimit)
  /\ pc' = "crawl"
  /\ UNCHANGED <<inputs, file, alive, crawl_symbols, results, errors, i, reqlog,
                 events, exitCode>>

MainLoadMissing_Fallback ==
  /\ alive /\ pc = "start" /\ entry = "full" /\ ~universeExists
  /\ symbols' = test_symbols
  /\ limit' = NoLimit
  /\ pc' = "crawl"
  /\ UNCHANGED <<inputs, file, alive, crawl_symbols, results, errors, i, reqlog,
                 events, exitCode>>
\* load_ticker_list, lines 94-96: the file is missing, sys.exit(1)
MainLoadMissing ==
  /\ alive /\ pc = "start" /\ entry = "full" /\ ~universeExists
  /\ exitCode' = 1
  /\ pc' = "exit"
  /\ UNCHANGED <<inputs, file, alive, symbols, limit, crawl_symbols, results,
                 errors, i, reqlog, events>>

\* load_ticker_list, lines 98-100, then crawl_all(symbols, limit=None)
MainLoad ==
  /\ alive /\ pc = "start" /\ entry = "full" /\ universeExists
  /\ symbols' = universe
  /\ limit' = NoLimit
  /\ pc' = "crawl"
  /\ UNCHANGED <<inputs, file, alive, crawl_symbols, results, errors, i, reqlog,
                 events, exitCode>>

\* crawl_all(symbols, limit) called by another caller than __main__
Call ==
  /\ alive /\ pc = "start" /\ entry = "call"
  /\ symbols' = universe
  /\ limit' = callLimit
  /\ pc' = "crawl"
  /\ UNCHANGED <<inputs, file, alive, crawl_symbols, results, errors, i, reqlog,
                 events, exitCode>>

\* ------------------------------------------------------------ crawl_all
\* Python truth value of the limit argument: None and 0 are false
Truthy(l) == l.given /\ l.n # 0

\* symbols[:limit] for a non-negative limit
Slice(s, n) == SubSeq(s, 1, Min(n, Len(s)))

\* lines 104-105
ApplyLimit(s, l) == IF Truthy(l) THEN Slice(s, l.n) ELSE s

\* lines 104-111
CrawlStart ==
  /\ alive /\ pc = "crawl"
  /\ crawl_symbols' = ApplyLimit(symbols, limit)
  /\ results' = EmptyMap
  /\ errors' = 0
  /\ i' = 1
  /\ pc' = "loop"
  /\ UNCHANGED <<inputs, file, alive, symbols, limit, reqlog, events, exitCode>>

\* lines 113-116: the next symbol's request goes out
IssueRequest ==
  /\ alive /\ pc = "loop" /\ i <= Len(crawl_symbols)
  /\ events' = Append(events, "F")
  /\ pc' = "fetching"
  /\ UNCHANGED <<inputs, file, alive, symbols, limit, crawl_symbols, results,
                 errors, i, reqlog, exitCode>>

\* the provider call raised
Raises(resp) == resp \in {"Exception", "RateLimited"}

Caught_NotThrottle(resp) == resp # "RateLimited"
\* except Exception, lines 86-88
Caught(resp) == TRUE

\* get_fundamentals, lines 27-88: the record of request n, or None
get_fundamentals(resp, n) ==
  IF Raises(resp) THEN None
  ELSE IF resp = "NotFound" THEN None
  ELSE n

NeedsPacing_AfterLast(idx, k) == idx <= k
\* line 125
NeedsPacing(idx, k) == idx < k

Respond_Checkpoint(resp) ==
  /\ alive /\ pc = "fetching"
  /\ reqlog' = Append(reqlog, [step |-> i, sym |-> crawl_symbols[i], resp |-> resp])
  /\ LET data == get_fundamentals(resp, Len(reqlog) + 1)
         k == Len(crawl_symbols)
         stored == (crawl_symbols[i] :> data) @@ results
     IN /\ IF data # None
             THEN /\ results' = stored
                  /\ errors' = errors
                  /\ file' = [st |-> "complete", count |-> Cardinality(DOMAIN stored),
                              data |-> stored, quarter |-> 0]
             ELSE /\ errors' = errors + 1
                  /\ results' = results
                  /\ file' = file
        /\ pc' = IF NeedsPacing(i, k) THEN "sleeping" ELSE "loop"
        /\ i' = IF NeedsPacing(i, k) THEN i ELSE i + 1
        /\ exitCode' = exitCode
  /\ UNCHANGED <<inputs, alive, symbols, limit, crawl_symbols, events>>

\* lines 116-125: the request returns, the record is stored or the error counted
Respond(resp) ==
  /\ alive /\ pc = "fetching"
  /\ reqlog' = Append(reqlog, [step |-> i, sym |-> crawl_symbols[i], resp |-> resp])
  /\ IF Raises(resp) /\ ~Caught(resp)
       THEN /\ pc' = "crashed"
            /\ exitCode' = 1
            /\ UNCHANGED <<results, errors, i>>
       ELSE LET data == get_fundamentals(resp, Len(reqlog) + 1)
                k == Len(crawl_symbols)
            IN /\ IF data # None
                    THEN /\ results' = (crawl_symbols[i] :> data) @@ results
                         /\ errors' = errors
                    ELSE /\ errors' = errors + 1
                         /\ results' = results
               /\ pc' = IF NeedsPacing(i, k) THEN "sleeping" ELSE "loop"
               /\ i' = IF NeedsPacing(i, k) THEN i ELSE i + 1
               /\ exitCode' = exitCode
  /\ UNCHANGED <<inputs, file, alive, symbols, limit, crawl_symbols, events>>

\* lines 126-127: the pacing sleep ends
Sleep ==
  /\ alive /\ pc = "sleeping"
  /\ events' = Append(events, "S")
  /\ i' = i + 1
  /\ pc' = "loop"
  /\ UNCHANGED <<inputs, file, alive, symbols, limit, crawl_symbols, results,
                 errors, reqlog, exitCode>>

\* lines 129-131: the loop is over, crawl_all returns results
CrawlReturn ==
  /\ alive /\ pc = "loop" /\ i > Len(crawl_symbols)
  /\ pc' = "returned"
  /\ UNCHANGED <<inputs, file, alive, symbols, limit, crawl_symbols, results,
                 errors, i, reqlog, events, exitCode>>

\* ------------------------------------------------- __main__, save_results
ShouldSave_Always(res) == TRUE
\* line 174: if results
ShouldSave(res) == res # EmptyMap

\* lines 138-140: the quarter label Qn of a month, as the number n
quarter_map == (2 :> 4) @@ (5 :> 1) @@ (8 :> 2) @@ (11 :> 3)

QuarterOf_Calendar(m) == (m - 1) \div 3 + 1
QuarterOf(m) == IF m \in DOMAIN quarter_map THEN quarter_map[m] ELSE (m - 1) \div 3 + 1

Snapshot_Merged(res) ==
  [st |-> "complete", count |-> Cardinality(DOMAIN (res @@ file0.data)),
   data |-> res @@ file0.data, quarter |-> QuarterOf(month)]
\* lines 142-147: the output record
Snapshot(res) ==
  [st |-> "complete", count |-> Cardinality(DOMAIN res), data |-> res,
   quarter |-> QuarterOf(month)]

\* lines 174-179
MainDecide ==
  /\ alive /\ pc = "returned" /\ entry # "call"
  /\ IF ShouldSave(results)
       THEN pc' = "save" /\ exitCode' = exitCode
       ELSE pc' = "exit" /\ exitCode' = 1
  /\ UNCHANGED <<inputs, file, alive, symbols, limit, crawl_symbols, results,
                 errors, i, reqlog, events>>

\* line 149: open(OUTPUT_FILE, 'w') creates or truncates the file
SaveOpen ==
  /\ alive /\ pc = "save"
  /\ file' = Truncated
  /\ pc' = "dumping"
  /\ UNCHANGED <<inputs, alive, symbols, limit, crawl_symbols, results, errors,
                 i, reqlog, events, exitCode>>

\* line 150: json.dump writes in pieces, a full buffer reaches the disk
SaveFlush ==
  /\ alive /\ pc = "dumping" /\ file = Truncated
  /\ file' = Partial
  /\ UNCHANGED <<inputs, alive, pc, symbols, limit, crawl_symbols, results,
                 errors, i, reqlog, events, exitCode>>

\* line 150 and the end of the with block, then lines 152-176: normal exit
SaveClose ==
  /\ alive /\ pc = "dumping"
  /\ file' = Snapshot(results)
  /\ pc' = "exit"
  /\ exitCode' = 0
  /\ UNCHANGED <<inputs, alive, symbols, limit, crawl_symbols, results, errors,
                 i, reqlog, events>>

\* the process is terminated from outside while it runs
Kill ==
  /\ alive /\ pc \notin {"exit", "crashed"}
  /\ ~(pc = "returned" /\ entry = "call")
  /\ alive' = FALSE
  /\ UNCHANGED <<inputs, file, pc, symbols, limit, crawl_symbols, results, errors,
                 i, reqlog, events, exitCode>>

Program ==
  \/ MainTest
  \/ MainLoadMissing
  \/ MainLoad
  \/ Call
  \/ CrawlStart
  \/ IssueRequest
  \/ \E resp \in Responses : Respond(resp)
  \/ Sleep
  \/ CrawlReturn
  \/ MainDecide
  \/ SaveOpen
  \/ SaveFlush
  \/ SaveClose

Next ==
  \/ MainTest
  \/ MainLoadMissing
  \/ MainLoad
  \/ Call
  \/ CrawlStart
  \/ IssueRequest
  \/ \E resp \in Responses : Respond(resp)
  \/ Sleep
  \/ CrawlReturn
  \/ MainDecide
  \/ SaveOpen
  \/ SaveFlush
  \/ SaveClose
  \/ Kill

Spec == Init /\ [][Next]_vars

\* the process is sequential: a step that can be taken is taken, unless the
\* process is terminated from outside
FairSpec == Init /\ [][Next]_vars /\ WF_vars(Program)

\* ------------------------------------------------------------ properties
Count(seq, x) == Cardinality({n \in DOMAIN seq : seq[n] = x})

OkFetches == Cardinality({n \in DOMAIN reqlog : reqlog[n].resp = "Ok"})

Attempted == [n \in DOMAIN reqlog |-> reqlog[n].sym]

\* crawl_all has returned (and __main__ may have gone on)
AfterCrawl == pc \in {"returned", "save", "dumping"} \/ (pc = "exit" /\ symbols # <<>>)

\* the run of __main__ ended by itself
Exited == pc = "exit" /\ entry # "call"

\* C1: when crawl_all returns, the size of the result mapping plus the error
\* counter equals the number of symbols attempted after the limit was applied.
C1_CountsAddUp ==
  pc = "returned" => Cardinality(DOMAIN results) + errors = Len(crawl_symbols)

\* C2: a run writes the snapshot and exits with code zero if and only if at
\* least one record was collected; with an empty result mapping it exits
\* non-zero and leaves the snapshot file as it was.
C2_SaveIffCollected ==
  Exited =>
    /\ (exitCode = 0 /\ file = Snapshot(results)) <=> Cardinality(DOMAIN results) >= 1
    /\ Cardinality(DOMAIN results) = 0 => exitCode # 0 /\ file = file0
    /\ exitCode = 0 => file.count >= 1

\* a run over at least one symbol that collected nothing ended in Failed(NoData)
C2_Witness ==
  /\ Exited /\ Len(reqlog) >= 1 /\ results = EmptyMap
  /\ exitCode = 1 /\ file0 = OldSnapshot /\ file = OldSnapshot

\* C3: a throttled request is re-issued once for the same fetch step before
\* the step reports anything, so throttling alone never counts as an error.
C3_ThrottleRetried ==
  \A n \in DOMAIN reqlog :
    reqlog[n].resp = "RateLimited" /\ (n = 1 \/ reqlog[n - 1].step # reqlog[n].step) =>
      /\ n < Len(reqlog)
      /\ reqlog[n + 1].step = reqlog[n].step
      /\ reqlog[n + 1].sym = reqlog[n].sym

\* C4: the result mapping holds no entry for a symbol one of whose fetches
\* returned NotFound.
C4_NoEntryForNotFound ==
  \A n \in DOMAIN reqlog :
    reqlog[n].resp = "NotFound" => reqlog[n].sym \notin DOMAIN results

\* C5: the count of a written snapshot is the number of successful fetches of
\* the run, and is the size of the requested universe only when every symbol
\* succeeded.
C5_CountIsSuccessfulFetches ==
  Exited /\ exitCode = 0 =>
    /\ file.count = OkFetches
    /\ file.count = Len(symbols) =>
         Len(reqlog) = Len(symbols) /\ \A n \in DOMAIN reqlog : reqlog[n].resp = "Ok"

\* C6: until crawl_all has returned the snapshot file is what it was before
\* the run, also when the process is terminated during a fetch or a sleep.
C6_NoWriteDuringCrawl ==
  pc \in {"start", "crawl", "loop", "fetching", "sleeping", "returned"} => file = file0

\* the process was terminated during the loop after it had collected a record
C6_Witness ==
  /\ ~alive /\ pc \in {"fetching", "sleeping"}
  /\ results # EmptyMap /\ file0 = OldSnapshot /\ file = OldSnapshot

\* C7: at every point the snapshot file is the complete previous snapshot or
\* the complete new one.
C7_AtomicWrite ==
  file = file0 \/ file = Snapshot(results)

\* C8: crawl_all attempts the first min(N, len(symbols)) symbols in order,
\* each once, when a limit N is supplied, and the whole list otherwise.
C8_AttemptsFirstN ==
  pc = "returned" =>
    Attempted = IF limit.given THEN SubSeq(symbols, 1, Min(limit.n, Len(symbols)))
                ELSE symbols

\* C9: fetches and pacing sleeps alternate, starting and ending with a fetch:
\* k fetches, max(k-1, 0) sleeps, none after the last fetch, whatever the
\* outcomes of the fetches.
C9_PacingBetweenFetches ==
  /\ \A n \in 1..(Len(events) - 1) : ~(events[n] = "F" /\ events[n + 1] = "F")
  /\ AfterCrawl =>
       LET k == Len(crawl_symbols)
       IN /\ events = [n \in 1..Max(2 * k - 1, 0) |-> IF n % 2 = 1 THEN "F" ELSE "S"]
          /\ Count(events, "S") = Max(k - 1, 0)
          /\ Count(events, "F") = k

\* a run of three fetches, the first two failed, slept twice
C9_Witness ==
  /\ pc = "returned" /\ Len(crawl_symbols) = 3
  /\ reqlog[1].resp = "Exception" /\ reqlog[2].resp = "NotFound"
  /\ Count(events, "S") = 2

\* C10: whatever the outcomes of the fetches, the run reaches the end of the
\* (possibly limited) list, unless the universe file is missing or the process
\* is terminated from outside.
C10_BatchFinishes ==
  <>(\/ ~alive
     \/ (pc = "exit" /\ entry = "full" /\ ~universeExists)
     \/ (AfterCrawl /\ Len(reqlog) = Len(crawl_symbols)))

\* every kind of failure happened and the loop reached the end of the list
C10_Witness ==
  /\ pc = "returned" /\ Len(reqlog) = Len(crawl_symbols)
  /\ {reqlog[n].resp : n \in DOMAIN reqlog} = {"NotFound", "Exception", "RateLimited"}
  /\ errors = 3

\* C11: with the universe file missing a plain run stops at once: it exits
\* non-zero, has sent no request to the provider and has left the snapshot
\* file as it was.
C11_MissingUniverseAborts ==
  entry = "full" /\ ~universeExists =>
    /\ pc \in {"start", "exit"}
    /\ events = <<>> /\ reqlog = <<>>
    /\ file = file0
    /\ pc = "exit" => exitCode = 1
    /\ exitCode \in {0 - 1, 1}

\* the plain run without universe file has exited, a previous snapshot is on disk
C11_Witness ==
  /\ entry = "full" /\ ~universeExists /\ pc = "exit" /\ exitCode = 1
  /\ file0 = OldSnapshot /\ file = OldSnapshot

\* ============================================================ indicators
\* scripts/fetch_technical_data.py, lines 20-60.  Prices are whole numbers of
\* a price unit and the arithmetic is exact: a number is a fraction num/den,
\* a rounded number a count of hundredths.
MaxPrices == 3       \* longest price sequence
MaxPeriod == 3       \* largest period

PriceValues == {1, 2, 20001}
PriceLists == UNION {[1..n -> PriceValues] : n \in 0..MaxPrices}
MddValues == {0, 80, 100}

\* s[lo] + ... + s[hi]
RECURSIVE SumRange(_, _, _)
SumRange(s, lo, hi) ==
  IF lo > hi THEN 0
  ELSE IF lo = hi THEN s[lo]
  ELSE LET mid == (lo + hi) \div 2
       IN SumRange(s, lo, mid) + SumRange(s, mid + 1, hi)
\* sum(s)
SumSeq(s) == SumRange(s, 1, Len(s))

\* s[-n:]; s[-0:] is the whole list
LastN(s, n) == IF n = 0 \/ n >= Len(s) THEN s ELSE SubSeq(s, Len(s) - n + 1, Len(s))

Abs(x) == IF x < 0 THEN 0 - x ELSE x

\* round(num/den, 0) for den > 0, ties to even
RoundHalfEven(num, den) ==
  LET q == num \div den
      r == num % den
  IN IF 2 * r < den THEN q
     ELSE IF 2 * r > den THEN q + 1
     ELSE IF q % 2 = 0 THEN q ELSE q + 1

\* round(num/den, 2) as hundredths
Round2(num, den) ==
  IF den > 0 THEN RoundHalfEven(100 * num, den) ELSE RoundHalfEven(0 - 100 * num, 0 - den)

Null == [kind |-> "null", num |-> 0, den |-> 1]
Raised == [kind |-> "raise", num |-> 0, den |-> 1]
Value(n, d) == [kind |-> "value", num |-> n, den |-> d]

calculate_sma_OffByOne(p, per) ==
  IF Len(p) <= per THEN Null
  ELSE IF per = 0 THEN Raised
  ELSE Value(SumSeq(LastN(p, per)), per)
\* lines 20-24; the division by a period of 0 raises ZeroDivisionError
calculate_sma(p, per) ==
  IF Len(p) < per THEN Null
  ELSE IF per = 0 THEN Raised
  ELSE Value(SumSeq(LastN(p, per)), per)

\* lines 31-41
Gains(p) ==
  [k \in 1..(Len(p) - 1) |-> IF p[k + 1] - p[k] > 0 THEN p[k + 1] - p[k] ELSE 0]
Losses(p) ==
  [k \in 1..(Len(p) - 1) |-> IF p[k + 1] - p[k] > 0 THEN 0 ELSE Abs(p[k + 1] - p[k])]

calculate_rsi_NoComplement(p, per) ==
  IF Len(p) < per + 1 THEN Null
  ELSE IF Len(Gains(p)) < per THEN Null
  ELSE IF per = 0 THEN Raised
  ELSE LET g == SumSeq(LastN(Gains(p), per))
           l == SumSeq(LastN(Losses(p), per))
       IN IF l = 0 THEN Value(10000, 100)
          ELSE Value(Round2(100 * l, l + g), 100)
\* lines 26-54; avg_gain = g/per, avg_loss = l/per, rs = g/l,
\* 100/(1 + rs) = 100*l/(l + g), rsi = (100*(l + g) - 100*l)/(l + g);
\* the result is in hundredths
calculate_rsi(p, per) ==
  IF Len(p) < per + 1 THEN Null
  ELSE IF Len(Gains(p)) < per THEN Null
  ELSE IF per = 0 THEN Raised
  ELSE LET g == SumSeq(LastN(Gains(p), per))
           l == SumSeq(LastN(Losses(p), per))
       IN IF l = 0 THEN Value(10000, 100)
          ELSE Value(Round2(100 * (l + g) - 100 * l, l + g), 100)

calculate_mdd_Swapped(c, h) ==
  IF h = 0 THEN Value(0, 100)
  ELSE Value(Round2((h - c) * 100, h), 100)
\* lines 56-60; the result is in hundredths
calculate_mdd(c, h) ==
  IF h = 0 THEN Value(0, 100)
  ELSE Value(Round2((c - h) * 100, h), 100)

\* the crawler is not running
CrawlIdle ==
  /\ entry = "none" /\ universeExists = FALSE /\ universe = <<>> /\ callLimit = NoLimit
  /\ file0 = Absent /\ file = Absent /\ alive = TRUE /\ pc = "idle"
  /\ symbols = <<>> /\ limit = NoLimit /\ crawl_symbols = <<>>
  /\ results = EmptyMap /\ errors = 0 /\ i = 0 /\ reqlog = <<>> /\ events = <<>>
  /\ exitCode = 0 - 1 /\ month = RunMonth /\ saveCalls = 0

IndicatorInit ==
  /\ prices \in PriceLists
  /\ period \in 0..MaxPeriod
  /\ current_price \in MddValues
  /\ high_52w \in MddValues
  /\ sma = Unset /\ rsi = Unset /\ mdd = Unset
  /\ CrawlIdle /\ TechIdle /\ NasdaqIdle

CallSma ==
  /\ sma = Unset
  /\ sma' = calculate_sma(prices, period)
  /\ UNCHANGED <<prices, period, current_price, high_52w, rsi, mdd,
                 crawlVars, techVars, nasdaqVars>>

CallRsi ==
  /\ rsi = Unset
  /\ rsi' = calculate_rsi(prices, period)
  /\ UNCHANGED <<prices, period, current_price, high_52w, sma, mdd,
                 crawlVars, techVars, nasdaqVars>>

CallMdd ==
  /\ mdd = Unset
  /\ mdd' = calculate_mdd(current_price, high_52w)
  /\ UNCHANGED <<prices, period, current_price, high_52w, sma, rsi,
                 crawlVars, techVars, nasdaqVars>>

IndicatorNext ==
  \/ CallSma
  \/ CallRsi
  \/ CallMdd

IndicatorSpec == IndicatorInit /\ [][IndicatorNext]_vars

\* sums of the gains and losses of the trailing period changes
TrailingGain == SumSeq(LastN(Gains(prices), period))
TrailingLoss == SumSeq(LastN(Losses(prices), period))

\* C12 as stated: the result is in [0, 100], and is 100 if and only if the
\* average loss over the trailing period changes is 0.
C12_Rsi100IffNoLoss ==
  rsi.kind = "value" =>
    /\ 0 <= rsi.num /\ rsi.num <= 10000
    /\ rsi.num = 10000 <=> TrailingLoss = 0

\* C12 amended: the result is in [0, 100]; it is 100 when the average loss
\* is 0, and with a positive average loss it is 100 only when the average
\* gain is at least 19999 times the average loss (the value rounds to 100.00).
C12_Rsi100NoLossOrRounded ==
  rsi.kind = "value" =>
    /\ 0 <= rsi.num /\ rsi.num <= 10000
    /\ TrailingLoss = 0 => rsi.num = 10000
    /\ TrailingLoss > 0 => (rsi.num = 10000 <=> TrailingGain >= 19999 * TrailingLoss)
    /\ Len(prices) >= period + 1 /\ period >= 1

\* a loss in the trailing window and a result of 100
C12_Witness ==
  /\ rsi.kind = "value" /\ rsi.num = 10000 /\ TrailingLoss > 0
  /\ Len(prices) >= period + 1

\* C13: calculate_sma returns null exactly for fewer than period points,
\* calculate_rsi exactly for fewer than period + 1 points, and neither raises
\* on such a short sequence.
C13_NullIffShort ==
  /\ sma # Unset =>
       /\ sma.kind = "null" <=> Len(prices) < period
       /\ Len(prices) < period => sma.kind # "raise"
  /\ rsi # Unset =>
       /\ rsi.kind = "null" <=> Len(prices) < period + 1
       /\ Len(prices) < period + 1 => rsi.kind # "raise"

\* both functions were called on exactly period points: a mean and a null
C13_Witness ==
  /\ period >= 1 /\ Len(prices) = period
  /\ sma.kind = "value" /\ rsi.kind = "null"

\* C14: the drawdown is at most 0 when the current price is at most a
\* positive 52-week high, 0 when the high is 0, and -20.0 for 80 and 100.
C14_MddNotPositive ==
  mdd # Unset =>
    /\ mdd.kind = "value"
    /\ high_52w > 0 /\ current_price <= high_52w => mdd.num <= 0
    /\ high_52w = 0 => mdd.num = 0
    /\ current_price = 80 /\ high_52w = 100 => mdd.num = 0 - 2000

\* the example: 80 under a high of 100
C14_Witness ==
  /\ current_price = 80 /\ high_52w = 100 /\ mdd = Value(0 - 2000, 100)

\* ========================================================== save_results
\* save_results(m) called on its own, once and again, in any month and on any
\* previous content of the snapshot file (fetch_fundamentals.py, lines 133-154)
MaxSaves == 2        \* calls of save_results

\* result mappings: some symbols, each with the record of request 1 or 2
Mappings == UNION {[d -> {1, 2}] : d \in SUBSET SymbolPool}

\* snapshots an earlier run may have left
PriorSnapshots ==
  {[st |-> "complete", count |-> Cardinality(DOMAIN m), data |-> m, quarter |-> q] :
     m \in {mm \in Mappings : mm # EmptyMap}, q \in {3}}

SaveInit ==
  /\ entry = "save" /\ universeExists = FALSE /\ universe = <<>> /\ callLimit = NoLimit
  /\ month \in 1..12
  /\ file0 \in {Absent, OldSnapshot} \cup PriorSnapshots
  /\ file = file0
  /\ alive = TRUE /\ pc = "save"
  /\ symbols = <<>> /\ limit = NoLimit /\ crawl_symbols = <<>>
  /\ results \in Mappings
  /\ errors = 0 /\ i = 0 /\ reqlog = <<>> /\ events = <<>>
  /\ exitCode = 0 - 1
  /\ saveCalls = 0
  /\ IndicatorIdle /\ TechIdle /\ NasdaqIdle

\* save_results has returned; it is called again with the same mapping, the
\* clock may have moved on to the next month
SaveAgain ==
  /\ pc = "exit" /\ saveCalls + 1 < MaxSaves
  /\ saveCalls' = saveCalls + 1
  /\ month' \in {month, (month % 12) + 1}
  /\ pc' = "save"
  /\ UNCHANGED <<entry, universeExists, universe, callLimit, file0, file, alive,
                 symbols, limit, crawl_symbols, results, errors, i, reqlog, events,
                 exitCode, indicatorVars, techVars, nasdaqVars>>

SaveNext ==
  \/ SaveOpen
  \/ SaveFlush
  \/ SaveClose
  \/ SaveAgain

SaveSpec == SaveInit /\ [][SaveNext]_vars

\* C15: when save_results(m) has returned the 'data' of the file is m and
\* nothing else, whatever the file held before and however often it was
\* called, and no step of save_results changes m.
C15_DataIsMapping ==
  /\ [](pc = "exit" => file.st = "complete" /\ file.data = results
                       /\ DOMAIN file.data = DOMAIN results)
  /\ [][results' = results]_vars

\* the second call has returned; the file held another symbol before
C15_Witness ==
  /\ pc = "exit" /\ saveCalls = 1
  /\ file0.st = "complete" /\ DOMAIN file0.data # {} /\ DOMAIN file0.data \cap DOMAIN results = {}
  /\ results # EmptyMap /\ file.data = results

\* C19: in every month the period tag is computed: months 2, 5, 8, 11 give
\* Q4, Q1, Q2, Q3, any other month m gives Q((m-1)//3 + 1); the number is in 1..4.
C19_QuarterTag ==
  pc = "exit" =>
    /\ file.quarter \in 1..4
    /\ month = 2 => file.quarter = 4
    /\ month = 5 => file.quarter = 1
    /\ month = 8 => file.quarter = 2
    /\ month = 11 => file.quarter = 3
    /\ month \notin {2, 5, 8, 11} => file.quarter = ((month - 1) \div 3) + 1

\* a snapshot written in February carries Q4
C19_Witness ==
  pc = "exit" /\ month = 2 /\ file.quarter = 4 /\ file.data = results

\* ============================================================ fetch_nasdaq
\* scripts/fetch_nasdaq.py.  A symbol or a name is the sequence of its
\* character codes, so that strip(), startswith(), endswith() and the order
\* of sorted() are computed; an exchange code is a string without blanks.
MaxFeed == 3         \* lines of the feed between header and footer

Blank == 32
TxtEmpty == <<>>
TxtA == <<65>>
TxtB == <<66>>
TxtDollarA == <<36, 65>>
TxtATest == <<65, 46, 84, 69, 83, 84>>
TxtBlankB == <<32, 66>>
TxtNA == <<78, 47, 65>>
TxtAcme == <<65, 99, 109, 101>>
TxtBlanks == <<32, 32>>
TxtDotTest == <<46, 84, 69, 83, 84>>
TxtDollar == <<36>>

RECURSIVE LStrip(_)
LStrip(s) == IF s # <<>> /\ s[1] = Blank THEN LStrip(Tail(s)) ELSE s
RECURSIVE RStrip(_)
RStrip(s) ==
  IF s # <<>> /\ s[Len(s)] = Blank THEN RStrip(SubSeq(s, 1, Len(s) - 1)) ELSE s
\* str.strip()
Strip(s) == RStrip(LStrip(s))

StartsWith(s, pre) == Len(s) >= Len(pre) /\ SubSeq(s, 1, Len(pre)) = pre
EndsWith(s, suf) == Len(s) >= Len(suf) /\ SubSeq(s, Len(s) - Len(suf) + 1, Len(s)) = suf

\* a < b for Python strings
RECURSIVE LexLess(_, _)
LexLess(a, b) ==
  IF b = <<>> THEN FALSE
  ELSE IF a = <<>> THEN TRUE
  ELSE IF a[1] # b[1] THEN a[1] < b[1]
  ELSE LexLess(Tail(a), Tail(b))

\* one line of the feed after split('|'): the number of fields and fields 1, 2, 3, 6
FeedLine(nf, sy, nm, code, etf) ==
  [nfields |-> nf, symbol |-> sy, name |-> nm, exchange_code |-> code, etf |-> etf]

HeaderLine == FeedLine(12, <<83>>, <<78>>, "Listing Exchange", "Round Lot Size")
FooterLine == FeedLine(1, <<>>, <<>>, "", "")

ExchangeCodes == {"Q", "N", "A", "P", "Z", "V", ""}

BodyLines ==
  {FeedLine(12, sy, TxtAcme, "Q", "N") :
     sy \in {TxtEmpty, TxtA, TxtB, TxtDollarA, TxtATest, TxtBlankB}}
  \cup {FeedLine(12, TxtA, nm, "N", "N") : nm \in {TxtEmpty, TxtNA, TxtBlanks}}
  \cup {FeedLine(12, TxtB, TxtAcme, code, "Y") : code \in ExchangeCodes}
  \cup {FeedLine(6, TxtA, TxtAcme, "Q", "N")}

Feeds == UNION {[1..n -> BodyLines] : n \in 0..MaxFeed}

\* line 35
exchange_map ==
  ("Q" :> "NASDAQ") @@ ("N" :> "NYSE") @@ ("A" :> "AMEX") @@ ("P" :> "NYSE ARCA")
  @@ ("Z" :> "BATS")

exchange_of_Raw(code) == IF code \in DOMAIN exchange_map THEN exchange_map[code] ELSE code
\* line 40: exchange_map.get(exchange_code, 'OTHER')
exchange_of(code) == IF code \in DOMAIN exchange_map THEN exchange_map[code] ELSE "OTHER"

\* lines 20-33: the line is skipped
Skipped(l) ==
  \/ l.nfields < 7
  \/ EndsWith(Strip(l.symbol), TxtDotTest)
  \/ StartsWith(Strip(l.symbol), TxtDollar)
  \/ Strip(l.symbol) = <<>>
  \/ Strip(l.name) = <<>>
  \/ Strip(l.name) = TxtNA

\* lines 37-42
Ticker(l) ==
  [symbol |-> Strip(l.symbol), name |-> Strip(l.name),
   exchange |-> exchange_of(l.exchange_code), isETF |-> (l.etf = "Y")]

\* sorted(tickers, key=symbol): stable, an entry goes after those not greater
RECURSIVE Insert(_, _)
Insert(t, s) ==
  IF s = <<>> THEN <<t>>
  ELSE IF LexLess(t.symbol, s[1].symbol) THEN <<t>> \o s
  ELSE <<s[1]>> \o Insert(t, Tail(s))
RECURSIVE Sorted(_)
Sorted(s) == IF s = <<>> THEN <<>> ELSE Insert(s[Len(s)], Sorted(SubSeq(s, 1, Len(s) - 1)))

NasdaqInit ==
  /\ lines \in {<<HeaderLine>> \o body \o <<FooterLine>> : body \in Feeds}
  /\ ln = 2
  /\ tickers = <<>>
  /\ directory = <<>>
  /\ n_pc = "loop"
  /\ CrawlIdle /\ IndicatorIdle /\ TechIdle

\* lines 18-42: one line of lines[1:-1]
ProcessLine ==
  /\ n_pc = "loop" /\ ln <= Len(lines) - 1
  /\ tickers' = IF Skipped(lines[ln]) THEN tickers ELSE Append(tickers, Ticker(lines[ln]))
  /\ ln' = ln + 1
  /\ UNCHANGED <<n_pc, lines, directory, crawlVars, indicatorVars, techVars>>

\* lines 44-51: the sorted directory is written to data/tickers.json
WriteDirectory ==
  /\ n_pc = "loop" /\ ln > Len(lines) - 1
  /\ directory' = Sorted(tickers)
  /\ n_pc' = "written"
  /\ UNCHANGED <<lines, ln, tickers, crawlVars, indicatorVars, techVars>>

NasdaqNext ==
  \/ ProcessLine
  \/ WriteDirectory

NasdaqSpec == NasdaqInit /\ [][NasdaqNext]_vars

\* C16: the written directory is sorted by identifier, holds each identifier
\* at most once, and holds no entry with an empty identifier, a test marker
\* or a missing or placeholder name.
C16_DirectorySortedUniqueClean ==
  n_pc = "written" =>
    /\ \A j, k \in DOMAIN directory : j < k => ~LexLess(directory[k].symbol, directory[j].symbol)
    /\ \A j, k \in DOMAIN directory : j # k => directory[j].symbol # directory[k].symbol
    /\ \A j \in DOMAIN directory :
         /\ directory[j].symbol # <<>>
         /\ directory[j].symbol[1] # 36
         /\ directory[j].name # <<>>
         /\ directory[j].name # TxtNA

\* C18 as stated: every exchange of the directory is in the enum of the spec.
C18_ExchangeInSpecEnum ==
  \A j \in DOMAIN directory :
    directory[j].exchange \in {"NASDAQ", "NYSE", "AMEX", "ARCA", "OTHER"}

\* C18 amended: every exchange of the directory is one of NASDAQ, NYSE, AMEX,
\* NYSE ARCA, BATS and OTHER, for every exchange code of the feed.
C18_ExchangeInCodeEnum ==
  /\ \A j \in DOMAIN directory :
       directory[j].exchange \in {"NASDAQ", "NYSE", "AMEX", "NYSE ARCA", "BATS", "OTHER"}
  /\ \A j \in DOMAIN tickers :
       tickers[j].exchange \in {"NASDAQ", "NYSE", "AMEX", "NYSE ARCA", "BATS", "OTHER"}

\* the directory was written with entries of codes Z, P and an unknown code
C18_Witness ==
  /\ n_pc = "written"
  /\ {directory[j].exchange : j \in DOMAIN directory} = {"BATS", "NYSE ARCA", "OTHER"}

\* ================================================== fetch_technical_data
\* get_technical_data and the loop of crawl_all of
\* scripts/fetch_technical_data.py (lines 62-150); the limit and the pacing
\* sleep are those of the crawl specification above.  Persisted prices are
\* in hundredths.
MaxTechLen == 2      \* longest symbol list of the technical crawl

MinRows == 50        \* len(history) < 50 (line 70)
SmaPeriod == 200     \* calculate_sma(closes, 200) (line 83)
RsiPeriod == 14      \* calculate_rsi(closes, 14) (line 84)
HistoryWindow == 200 \* len(history) - 200 (line 89)
HighGap == 2         \* a day's high above its close in the histories drawn

RowCounts == {0, 1, MinRows - 1, MinRows, SmaPeriod - 1, SmaPeriod, SmaPeriod + 1}

\* n rows, dated 1..n, closing at base and on the last day at last
HistoryOf(n, base, last) ==
  [k \in 1..n |-> [date |-> k,
                   close |-> IF k = n THEN last ELSE base,
                   high |-> (IF k = n THEN last ELSE base) + HighGap]]

Histories ==
  {HistoryOf(n, 10, 20) : n \in RowCounts}
  \cup {HistoryOf(SmaPeriod, 0, 0), HistoryOf(SmaPeriod + 1, 10, 10)}

\* what ticker.history() does: it raises, or returns rows
TechResponses ==
  {[exc |-> TRUE, rows |-> <<>>]} \cup {[exc |-> FALSE, rows |-> h] : h \in Histories}

TechLists == UNION {[1..n -> SymbolPool] : n \in 0..MaxTechLen}

\* max(s) of a list that is not empty
MaxSeq(s) == CHOOSE x \in {s[k] : k \in DOMAIN s} : \A k \in DOMAIN s : s[k] <= x

TechNone == [ok |-> FALSE]

\* line 101: round(sma200, 2) if sma200 else None
PersistedSma(v) ==
  IF v.kind = "value" /\ v.num # 0 THEN Value(Round2(v.num, v.den), 100) ELSE Null

\* lines 87-95
recent_history(rows) ==
  LET first == Max(0, Len(rows) - HistoryWindow)
  IN [k \in 1..(Len(rows) - first) |->
        [date |-> rows[first + k].date,
         close |-> Round2(rows[first + k].close, 1),
         high |-> Round2(rows[first + k].high, 1)]]

\* lines 74-105
TechRecord(rows) ==
  LET closes == [k \in DOMAIN rows |-> rows[k].close]
      highs == [k \in DOMAIN rows |-> rows[k].high]
      cur == Round2(closes[Len(closes)], 1)
      hi == Round2(MaxSeq(highs), 1)
  IN [ok |-> TRUE,
      close |-> cur,
      high52w |-> hi,
      sma200 |-> PersistedSma(calculate_sma(closes, SmaPeriod)),
      rsi |-> calculate_rsi(closes, RsiPeriod),
      mdd |-> calculate_mdd(cur, hi),
      history |-> recent_history(rows)]

get_technical_data_NoMinimum(resp) ==
  IF resp.exc THEN TechNone
  ELSE IF resp.rows = <<>> THEN TechNone
  ELSE TechRecord(resp.rows)
\* lines 62-109
get_technical_data(resp) ==
  IF resp.exc THEN TechNone
  ELSE IF resp.rows = <<>> \/ Len(resp.rows) < MinRows THEN TechNone
  ELSE TechRecord(resp.rows)

TechInit ==
  /\ t_pc = "loop"
  /\ t_symbols \in TechLists
  /\ t_i = 1
  /\ t_results = <<>>
  /\ t_errors = 0
  /\ t_log = <<>>
  /\ CrawlIdle /\ IndicatorIdle /\ NasdaqIdle

\* lines 134-147: one symbol of the loop
TechFetch(resp) ==
  /\ t_pc = "loop" /\ t_i <= Len(t_symbols)
  /\ LET data == get_technical_data(resp)
     IN IF data.ok
          THEN /\ t_results' = (t_symbols[t_i] :> data) @@ t_results
               /\ t_errors' = t_errors
          ELSE /\ t_errors' = t_errors + 1
               /\ t_results' = t_results
  /\ t_log' = Append(t_log, [sym |-> t_symbols[t_i], exc |-> resp.exc, rows |-> resp.rows])
  /\ t_i' = t_i + 1
  /\ UNCHANGED <<t_pc, t_symbols, crawlVars, indicatorVars, nasdaqVars>>

\* lines 149-150
TechReturn ==
  /\ t_pc = "loop" /\ t_i > Len(t_symbols)
  /\ t_pc' = "returned"
  /\ UNCHANGED <<t_symbols, t_i, t_results, t_errors, t_log, crawlVars,
                 indicatorVars, nasdaqVars>>

TechNext ==
  \/ \E resp \in TechResponses : TechFetch(resp)
  \/ TechReturn

TechSpec == TechInit /\ [][TechNext]_vars

\* the fetch that was handled last, and whether it failed
LastFetch == t_log[Len(t_log)]
FetchFailed(e) == e.exc \/ Len(e.rows) < 50

\* C17: in the record a fetch puts into the result mapping, sma200 is null
\* exactly when the history has fewer than 200 closes, and otherwise the mean
\* of the last 200 closes rounded to 2 decimals.
C17_Sma200NullIffShort ==
  t_log # <<>> /\ ~FetchFailed(LastFetch) =>
    LET rec == t_results[LastFetch.sym]
        n == Len(LastFetch.rows)
        closes == [k \in 1..n |-> LastFetch.rows[k].close]
    IN /\ rec.sma200.kind = "null" <=> n < 200
       /\ n >= 200 =>
            rec.sma200 = Value(Round2(SumSeq(SubSeq(closes, n - 199, n)), 200), 100)

\* C20: a fetch whose history has fewer than 50 rows counts as an error and
\* stores nothing; the mapping holds exactly the symbols with a fetch that
\* did not fail, every record comes from at least 50 rows, and its history
\* holds the last min(n, 200) rows in their order.
C20_ShortHistoryIsFailure ==
  /\ t_errors = Cardinality({k \in DOMAIN t_log : FetchFailed(t_log[k])})
  /\ DOMAIN t_results = {t_log[k].sym : k \in {j \in DOMAIN t_log : ~FetchFailed(t_log[j])}}
  /\ \A s \in DOMAIN t_results : Len(t_results[s].history) >= 50
  /\ t_log # <<>> /\ ~FetchFailed(LastFetch) =>
       LET rec == t_results[LastFetch.sym]
           rows == LastFetch.rows
           n == Len(rows)
           m == IF n < 200 THEN n ELSE 200
       IN /\ n >= 50
          /\ Len(rec.history) = m
          /\ \A k \in 1..m :
               /\ rec.history[k].date = rows[n - m + k].date
               /\ rec.history[k].close = 100 * rows[n - m + k].close
               /\ rec.history[k].high = 100 * rows[n - m + k].high

\* a history of 49 rows was counted as an error, one of 201 rows was stored
\* with its last 200 rows
C20_Witness ==
  /\ t_pc = "returned" /\ Len(t_log) = 2
  /\ ~t_log[1].exc /\ Len(t_log[1].rows) = 49
  /\ ~t_log[2].exc /\ Len(t_log[2].rows) = 201
  /\ t_errors = 1
  /\ DOMAIN t_results = {t_log[2].sym}
  /\ Len(t_results[t_log[2].sym].history) = 200
  /\ t_results[t_log[2].sym].history[1].date = 2

====
